---------------------------- MODULE Spec2Model ----------------------------
(***************************************************************************)
(* Model of the entity-discovery-and-graph-assembly core of org-skin:      *)
(*   - mapper/graph.py    OrgGraph (nodes, edges, indices, traversal)      *)
(*   - mapper/scanner.py  OrganizationMapper.scan (the scan pipeline)      *)
(*   - graphql/client.py  GitHubGraphQLClient.paginate (cursor protocol)   *)
(*                                                                         *)
(* Python's Optional[T] is modelled as a sequence of length <= 1:          *)
(* None is <<>> and a value x is <<x>>.  A dict is a function whose        *)
(* DOMAIN is its key set.                                                   *)
(***************************************************************************)
EXTENDS Integers, Sequences, FiniteSets, TLC

VARIABLES
    HAS_NETWORKX,   \* graph.py:14-18  whether `import networkx` succeeded
    graph,          \* the OrgGraph instance (scanner.py:71 self.graph)
    exc,            \* exception raised by the last call ("none" if it returned)
    ops,            \* number of mutating OrgGraph calls made by a direct client
                    \* (for a scanning client: scan() calls after the first)
    added,          \* per id, the last entity a direct client passed to add_entity
    pc,             \* position of the scan coroutine (the await it is suspended at)
    args,           \* arguments of the running scan() call
    result,         \* scan()'s local `result` (ScanResult)
    returned,       \* Optional: the ScanResult the last scan() call returned
    scan_result,    \* Optional: self._scan_result
    pag,            \* locals of the running paginate(): all_items, cursor, page
    repos,          \* scan()'s local `repos`
    repo_idx,       \* index of the repository the issue/PR loop is at
    remote,         \* what the remote organization holds (transport stub)
    calls,          \* execute() calls answered so far, in order
    payload,        \* Optional: a node of a transport response (a dict)
    built           \* Optional: the outcome of building an entity from it

vars == <<HAS_NETWORKX, graph, exc, ops, added, pc, args, result, returned,
          scan_result, pag, repos, repo_idx, remote, calls, payload, built>>

graphClientVars == <<HAS_NETWORKX, graph, exc, ops, added>>
scannerVars == <<pc, args, result, returned, scan_result, pag, repos,
                 repo_idx, remote, calls>>
shapeVars == <<payload, built>>

----------------------------------------------------------------------------
(* Generic helpers for Python values *)

None == <<>>
Some(x) == <<x>>

EmptyDict == <<>>

\* dict.get(key, default)
Get(d, key, default) == IF key \in DOMAIN d THEN d[key] ELSE default

\* d[key] = value
Put(d, key, value) ==
    [k \in (DOMAIN d) \cup {key} |-> IF k = key THEN value ELSE d[k]]

Range(s) == {s[i] : i \in DOMAIN s}

\* seq[:n] for n >= 0
Prefix(s, n) == SubSeq(s, 1, IF n < Len(s) THEN n ELSE Len(s))

\* number of occurrences of x in the list s
Count(s, x) == Cardinality({i \in DOMAIN s : s[i] = x})

\* the iteration orders a Python set over the universe U can have
Orders(U) ==
    {o \in [1..Cardinality(U) -> U] : \A i, j \in DOMAIN o : i # j => o[i] # o[j]}

----------------------------------------------------------------------------
(* mapper/entities.py *)

\* EntityType enum: member name |-> value
EntityTypeValue ==
    [ORGANIZATION |-> "organization", REPOSITORY |-> "repository",
     TEAM |-> "team", MEMBER |-> "member", ISSUE |-> "issue",
     PULL_REQUEST |-> "pull_request"]

\* An entity object: its id, its entity_type (set by __post_init__) and the
\* rest of its dataclass fields, abstracted to one value.
Entity(id, entity_type, fields) ==
    [id |-> id, entity_type |-> entity_type, fields |-> fields]

\* BaseEntity.to_dict and its overrides: a flat mapping that carries the key
\* "entity_type" (the enum's value) next to the other fields.
to_dict(entity) ==
    [id |-> entity.id,
     entity_type |-> EntityTypeValue[entity.entity_type],
     fields |-> entity.fields]

\* Relationship(source_id, target_id, relation_type); metadata is left at its
\* default {} by every caller in the repository.
Relationship(source_id, target_id, relation_type) ==
    [source_id |-> source_id, target_id |-> target_id,
     relation_type |-> relation_type]

----------------------------------------------------------------------------
(* mapper/graph.py : OrgGraph *)

\* OrgGraph.__init__
OrgGraph(has_networkx) ==
    [nodes |-> EmptyDict,
     edges |-> <<>>,
     hyperedges |-> <<>>,
     nodes_by_type |-> EmptyDict,
     edges_by_source |-> EmptyDict,
     edges_by_target |-> EmptyDict,
     edges_by_type |-> EmptyDict,
     \* self._nx_graph: None, or an nx.DiGraph (node set, set of arcs)
     nx_graph |-> IF has_networkx THEN Some([nodes |-> {}, adj |-> {}])
                                  ELSE None]

GraphNode(entity) ==
    [id |-> entity.id, entity_type |-> entity.entity_type,
     data |-> to_dict(entity)]

\* The call self._nx_graph.add_node(entity.id, entity_type=..., **entity.to_dict())
\* passes the keyword entity_type twice whenever to_dict() has that key;
\* Python raises TypeError before add_node runs.
add_node_raises(entity) == "entity_type" \in DOMAIN to_dict(entity)

\* add_entity as it would be if it kept the node an id already has
\* (nodes.setdefault instead of an assignment)
add_entity_keep_first(g, entity) ==
    [g EXCEPT
       !.nodes = IF entity.id \in DOMAIN @ THEN @
                 ELSE Put(@, entity.id, GraphNode(entity)),
       !.nodes_by_type =
           Put(@, entity.entity_type,
               Append(Get(@, entity.entity_type, <<>>), entity.id))]

\* OrgGraph.add_entity: the graph it leaves behind ...
add_entity(g, entity) ==
    LET g1 == [g EXCEPT
                 !.nodes = Put(@, entity.id, GraphNode(entity)),
                 !.nodes_by_type =
                     Put(@, entity.entity_type,
                         Append(Get(@, entity.entity_type, <<>>), entity.id))]
    IN  IF g.nx_graph = None \/ add_node_raises(entity)
        THEN g1
        ELSE [g1 EXCEPT !.nx_graph =
                 Some([nodes |-> g.nx_graph[1].nodes \cup {entity.id},
                       adj |-> g.nx_graph[1].adj])]

\* ... and the exception it ends with
add_entity_exc(g, entity) ==
    IF g.nx_graph # None /\ add_node_raises(entity) THEN "TypeError" ELSE "none"

GraphEdge(relationship) ==
    [source_id |-> relationship.source_id,
     target_id |-> relationship.target_id,
     relation_type |-> relationship.relation_type]

\* add_relationship as it would be if it filed the edge in the target index
\* under its source id
add_relationship_source_key(g, relationship) ==
    LET edge == GraphEdge(relationship)
    IN  [g EXCEPT
           !.edges = Append(@, edge),
           !.edges_by_source =
               Put(@, relationship.source_id,
                   Append(Get(@, relationship.source_id, <<>>), edge)),
           !.edges_by_target =
               Put(@, relationship.source_id,
                   Append(Get(@, relationship.source_id, <<>>), edge)),
           !.edges_by_type =
               Put(@, relationship.relation_type,
                   Append(Get(@, relationship.relation_type, <<>>), edge))]

\* OrgGraph.add_relationship
add_relationship(g, relationship) ==
    LET edge == GraphEdge(relationship)
        g1 == [g EXCEPT
                 !.edges = Append(@, edge),
                 !.edges_by_source =
                     Put(@, relationship.source_id,
                         Append(Get(@, relationship.source_id, <<>>), edge)),
                 !.edges_by_target =
                     Put(@, relationship.target_id,
                         Append(Get(@, relationship.target_id, <<>>), edge)),
                 !.edges_by_type =
                     Put(@, relationship.relation_type,
                         Append(Get(@, relationship.relation_type, <<>>), edge))]
    IN  IF g.nx_graph = None
        THEN g1
        ELSE [g1 EXCEPT !.nx_graph =
                 \* DiGraph.add_edge adds both endpoints and one arc u -> v
                 Some([nodes |-> g.nx_graph[1].nodes
                                   \cup {relationship.source_id,
                                         relationship.target_id},
                       adj |-> g.nx_graph[1].adj
                                   \cup {<<relationship.source_id,
                                           relationship.target_id>>}])]

\* an add_hyperedge that numbers every hyperedge 0
add_hyperedge_first_id(g, entity_ids, relation_type) ==
    [g EXCEPT !.hyperedges =
        Append(@, [id |-> <<"he", 0>>,
                   entity_ids |-> entity_ids,
                   relation_type |-> relation_type])]

\* OrgGraph.add_hyperedge
add_hyperedge(g, entity_ids, relation_type) ==
    [g EXCEPT !.hyperedges =
        Append(@, [id |-> <<"he", Len(g.hyperedges)>>,
                   entity_ids |-> entity_ids,
                   relation_type |-> relation_type])]

\* OrgGraph.get_entity
get_entity(g, entity_id) ==
    IF entity_id \in DOMAIN g.nodes THEN Some(g.nodes[entity_id]) ELSE None

\* OrgGraph.get_relationships_from / _to / _by_type
get_relationships_from(g, entity_id) == Get(g.edges_by_source, entity_id, <<>>)
get_relationships_to(g, entity_id) == Get(g.edges_by_target, entity_id, <<>>)
get_relationships_by_type(g, relation_type) ==
    Get(g.edges_by_type, relation_type, <<>>)

\* the set neighbor_ids that get_neighbors collects
neighbor_ids(g, entity_id, direction) ==
    (IF direction \in {"outgoing", "both"}
     THEN {e.target_id : e \in Range(Get(g.edges_by_source, entity_id, <<>>))}
     ELSE {})
    \cup
    (IF direction \in {"incoming", "both"}
     THEN {e.source_id : e \in Range(Get(g.edges_by_target, entity_id, <<>>))}
     ELSE {})

\* get_neighbors as it would be if it collected the neighbor ids in a list
\* instead of a set
get_neighbors_list(g, entity_id, direction, order) ==
    LET out == Get(g.edges_by_source, entity_id, <<>>)
        inc == Get(g.edges_by_target, entity_id, <<>>)
        ids == (IF direction \in {"outgoing", "both"}
                THEN [i \in 1..Len(out) |-> out[i].target_id] ELSE <<>>)
               \o
               (IF direction \in {"incoming", "both"}
                THEN [i \in 1..Len(inc) |-> inc[i].source_id] ELSE <<>>)
        kept == SelectSeq(ids, LAMBDA id : id \in DOMAIN g.nodes)
    IN  [i \in 1..Len(kept) |-> g.nodes[kept[i]]]

\* OrgGraph.get_neighbors.  `order` is the order in which the Python set
\* neighbor_ids is iterated (it depends on the process's string hashing).
get_neighbors(g, entity_id, direction, order) ==
    LET found == neighbor_ids(g, entity_id, direction)
        ids == SelectSeq(order,
                 LAMBDA id : id \in found /\ id \in DOMAIN g.nodes)
    IN  [i \in 1..Len(ids) |-> g.nodes[ids[i]]]

\* The fallback of find_path: breadth-first search over get_neighbors(.,
\* "outgoing"), the deque holding (node id, path) pairs.
RECURSIVE bfs(_, _, _, _, _)
bfs(g, queue, visited, target_id, order) ==
    IF queue = <<>>
    THEN None
    ELSE LET current == Head(queue)[1]
             path == Head(queue)[2]
         IN  IF current = target_id
             THEN Some(path)
             ELSE LET nbrs == get_neighbors(g, current, "outgoing", order)
                      \* get_neighbors lists no id twice, so testing each
                      \* neighbor against `visited` as the loop grows it is
                      \* testing it against `visited` as it was before
                      fresh == SelectSeq(nbrs, LAMBDA n : n.id \notin visited)
                  IN  bfs(g,
                          Tail(queue) \o
                            [i \in 1..Len(fresh) |->
                               <<fresh[i].id, Append(path, fresh[i].id)>>],
                          visited \cup {fresh[i].id : i \in 1..Len(fresh)},
                          target_id, order)

find_path_fallback(g, source_id, target_id, order) ==
    [exc |-> "none",
     value |-> bfs(g, <<<<source_id, <<source_id>>>>>>, {source_id},
                   target_id, order)]

\* networkx: the directed walks with n arcs from source to target
nx_walks(G, source, target, n) ==
    {p \in [1..(n + 1) -> G.nodes] :
        /\ p[1] = source
        /\ p[n + 1] = target
        /\ \A i \in 1..n : <<p[i], p[i + 1]>> \in G.adj}

\* networkx: the least number of arcs of a walk from source to target, or -1
RECURSIVE nx_distance(_, _, _, _)
nx_distance(G, source, target, n) ==
    IF n >= Cardinality(G.nodes) THEN -1
    ELSE IF nx_walks(G, source, target, n) # {} THEN n
    ELSE nx_distance(G, source, target, n + 1)

\* nx.shortest_path(G, source, target) by its contract: NodeNotFound when an
\* endpoint is no node of G, NetworkXNoPath when there is no path, else one
\* of the shortest paths (which one is the library's choice).
nx_shortest_path(G, source, target) ==
    IF source \notin G.nodes \/ target \notin G.nodes
    THEN [exc |-> "NodeNotFound", value |-> None]
    ELSE LET d == nx_distance(G, source, target, 0)
         IN  IF d = -1
             THEN [exc |-> "NetworkXNoPath", value |-> None]
             ELSE [exc |-> "none",
                   value |-> Some(CHOOSE p \in nx_walks(G, source, target, d) : TRUE)]

\* OrgGraph.find_path: the exception it ends with ("none" if it returns) and
\* the Optional path it returns.
find_path(g, source_id, target_id, order) ==
    IF g.nx_graph # None
    THEN LET r == nx_shortest_path(g.nx_graph[1], source_id, target_id)
         IN  IF r.exc = "NetworkXNoPath"
             THEN [exc |-> "none", value |-> None]
             ELSE r
    ELSE find_path_fallback(g, source_id, target_id, order)

\* find_clusters, fallback: dfs(node_id, cluster) and its loop over
\* get_neighbors(node_id, "both"); the value is `visited` after the call.
\* Everything the call adds to `visited` it adds to `cluster`.
RECURSIVE dfs(_, _, _, _)
RECURSIVE dfs_neighbors(_, _, _, _, _)
dfs(g, node_id, visited, order) ==
    dfs_neighbors(g, get_neighbors(g, node_id, "both", order), 1,
                  visited \cup {node_id}, order)

dfs_neighbors(g, nbrs, k, visited, order) ==
    IF k > Len(nbrs) THEN visited
    ELSE dfs_neighbors(g, nbrs, k + 1,
                       IF nbrs[k].id \in visited THEN visited
                       ELSE dfs(g, nbrs[k].id, visited, order),
                       order)

\* find_clusters, fallback: `for node_id in self.nodes`
RECURSIVE clusters_loop(_, _, _, _, _, _)
clusters_loop(g, node_ids, k, visited, clusters, order) ==
    IF k > Len(node_ids) THEN clusters
    ELSE IF node_ids[k] \in visited
    THEN clusters_loop(g, node_ids, k + 1, visited, clusters, order)
    ELSE LET v == dfs(g, node_ids[k], visited, order)
         IN  clusters_loop(g, node_ids, k + 1, v,
                           Append(clusters, v \ visited), order)

\* networkx: the nodes joined to S by arcs taken in either direction
RECURSIVE nx_component(_, _)
nx_component(G, S) ==
    LET T == S \cup {p[2] : p \in {q \in G.adj : q[1] \in S}}
               \cup {p[1] : p \in {q \in G.adj : q[2] \in S}}
    IN  IF T = S THEN S ELSE nx_component(G, T)

\* nx.weakly_connected_components(G): one set per component, over G's nodes
RECURSIVE nx_weakly_connected_components(_, _, _, _, _)
nx_weakly_connected_components(G, node_ids, k, seen, components) ==
    IF k > Len(node_ids) THEN components
    ELSE IF node_ids[k] \in seen
    THEN nx_weakly_connected_components(G, node_ids, k + 1, seen, components)
    ELSE LET c == nx_component(G, {node_ids[k]})
         IN  nx_weakly_connected_components(G, node_ids, k + 1, seen \cup c,
                                            Append(components, c))

\* OrgGraph.find_clusters.  `node_order` is the order in which the nodes are
\* iterated, `order` the iteration order of get_neighbors' set.
find_clusters(g, node_order, order) ==
    IF g.nx_graph # None
    THEN nx_weakly_connected_components(
             g.nx_graph[1],
             SelectSeq(node_order, LAMBDA id : id \in g.nx_graph[1].nodes),
             1, {}, <<>>)
    ELSE clusters_loop(
             g, SelectSeq(node_order, LAMBDA id : id \in DOMAIN g.nodes),
             1, {}, <<>>, order)

\* A float quotient num / den, kept exact
Quotient(num, den) == [num |-> num, den |-> den]

\* nx.degree_centrality(G) for a DiGraph: 1 for every node when G has at most
\* one node, else (in-degree + out-degree) / (len(G) - 1); a self-loop counts
\* in both degrees.
nx_degree_centrality(G) ==
    IF Cardinality(G.nodes) <= 1
    THEN [n \in G.nodes |-> Quotient(1, 1)]
    ELSE [n \in G.nodes |->
            Quotient(Cardinality({p \in G.adj : p[1] = n})
                       + Cardinality({p \in G.adj : p[2] = n}),
                     Cardinality(G.nodes) - 1)]

\* OrgGraph.compute_centrality
compute_centrality(g) ==
    IF g.nx_graph # None /\ Cardinality(g.nx_graph[1].nodes) > 0
    THEN nx_degree_centrality(g.nx_graph[1])
    ELSE [entity_id \in DOMAIN g.nodes |->
            Quotient(Len(Get(g.edges_by_source, entity_id, <<>>))
                       + Len(Get(g.edges_by_target, entity_id, <<>>)),
                     IF Cardinality(DOMAIN g.nodes) - 1 > 1
                     THEN Cardinality(DOMAIN g.nodes) - 1 ELSE 1)]

\* get_subgraph: `for entity_id in entity_ids: if entity_id in self.nodes:
\* subgraph.add_entity(BaseEntity(id, entity_type, metadata=node.data))`;
\* the subgraph after the loop and the exception that ended it
RECURSIVE subgraph_entities(_, _, _, _)
subgraph_entities(sub, g, entity_ids, k) ==
    IF k > Len(entity_ids)
    THEN [g |-> sub, exc |-> "none"]
    ELSE IF entity_ids[k] \notin DOMAIN g.nodes
    THEN subgraph_entities(sub, g, entity_ids, k + 1)
    ELSE LET node == g.nodes[entity_ids[k]]
             entity == Entity(node.id, node.entity_type, node.data)
             e == add_entity_exc(sub, entity)
         IN  IF e # "none"
             THEN [g |-> add_entity(sub, entity), exc |-> e]
             ELSE subgraph_entities(add_entity(sub, entity), g, entity_ids,
                                    k + 1)

\* get_subgraph: `for edge in self.edges: if both endpoints in entity_set:
\* subgraph.add_relationship(...)`
RECURSIVE subgraph_relationships(_, _, _, _)
subgraph_relationships(sub, edges, entity_set, k) ==
    IF k > Len(edges) THEN sub
    ELSE subgraph_relationships(
             IF edges[k].source_id \in entity_set
                /\ edges[k].target_id \in entity_set
             THEN add_relationship(sub,
                      Relationship(edges[k].source_id, edges[k].target_id,
                                   edges[k].relation_type))
             ELSE sub,
             edges, entity_set, k + 1)

\* OrgGraph.get_subgraph: the exception it ends with and the graph it returns
get_subgraph(g, entity_ids, include_relationships) ==
    LET r == subgraph_entities(OrgGraph(g.nx_graph # None), g, entity_ids, 1)
    IN  IF r.exc # "none"
        THEN [exc |-> r.exc, value |-> None]
        ELSE [exc |-> "none",
              value |-> Some(IF include_relationships
                             THEN subgraph_relationships(r.g, g.edges,
                                                         Range(entity_ids), 1)
                             ELSE r.g)]

\* OrgGraph.get_entities_by_type: the node of every id the type's list holds
get_entities_by_type(g, entity_type) ==
    LET ids == Get(g.nodes_by_type, entity_type, <<>>)
    IN  [i \in 1..Len(ids) |-> g.nodes[ids[i]]]

\* the "statistics" entry of OrgGraph.to_dict()
statistics(g) ==
    [node_count |-> Cardinality(DOMAIN g.nodes),
     edge_count |-> Len(g.edges),
     hyperedge_count |-> Len(g.hyperedges),
     nodes_by_type |->
        [v \in {EntityTypeValue[k] : k \in DOMAIN g.nodes_by_type} |->
            LET k == CHOOSE k \in DOMAIN g.nodes_by_type :
                        EntityTypeValue[k] = v
            IN  Len(g.nodes_by_type[k])]]

----------------------------------------------------------------------------
(* A client that drives an OrgGraph directly *)

\* bound: mutating calls a direct client makes
MaxOps == 4

Ids == {"a", "b"}
EntityTypes == {"REPOSITORY", "TEAM"}
RelationTypes == {"OWNS", "MEMBER_OF"}
HyperedgeIdLists == {<<>>, <<"a", "zz">>}

\* the iteration orders a set of these ids can have
IdOrders == Orders(Ids)

\* the number of add_entity calls made on g so far
EntitiesAdded(g) ==
    LET RECURSIVE Sum(_)
        Sum(S) == IF S = {} THEN 0
                  ELSE LET t == CHOOSE x \in S : TRUE
                       IN  Len(g.nodes_by_type[t]) + Sum(S \ {t})
    IN  Sum(DOMAIN g.nodes_by_type)

\* no payload is being converted
NoPayload == payload = None /\ built = None

ScannerIdle ==
    /\ pc = "idle"
    /\ args = None
    /\ result = None
    /\ returned = None
    /\ scan_result = None
    /\ pag = None
    /\ repos = <<>>
    /\ repo_idx = 0
    /\ calls = <<>>

InitGraph ==
    /\ HAS_NETWORKX \in BOOLEAN
    /\ graph = OrgGraph(HAS_NETWORKX)
    /\ exc = "none"
    /\ ops = 0
    /\ added = EmptyDict
    /\ ScannerIdle
    /\ NoPayload
    /\ remote = None

\* graph.add_entity(entity) called by the client; it keeps going when the call
\* raises
AddEntity(id, entity_type) ==
    /\ ops < MaxOps
    /\ LET entity == Entity(id, entity_type, EntitiesAdded(graph) + 1)
       IN  /\ graph' = add_entity(graph, entity)
           /\ exc' = add_entity_exc(graph, entity)
           /\ added' = Put(added, id, entity)
    /\ ops' = ops + 1
    /\ UNCHANGED <<shapeVars, HAS_NETWORKX, scannerVars>>

AddRelationship(source_id, target_id, relation_type) ==
    /\ ops < MaxOps
    /\ graph' = add_relationship(graph,
                    Relationship(source_id, target_id, relation_type))
    /\ exc' = "none"
    /\ ops' = ops + 1
    /\ UNCHANGED <<shapeVars, HAS_NETWORKX, added, scannerVars>>

AddHyperedge(entity_ids, relation_type) ==
    /\ ops < MaxOps
    /\ graph' = add_hyperedge(graph, entity_ids, relation_type)
    /\ exc' = "none"
    /\ ops' = ops + 1
    /\ UNCHANGED <<shapeVars, HAS_NETWORKX, added, scannerVars>>

NextGraph ==
    \/ \E id \in Ids, t \in EntityTypes : AddEntity(id, t)
    \/ \E s \in Ids, t \in Ids, r \in RelationTypes : AddRelationship(s, t, r)
    \/ \E ids \in HyperedgeIdLists : AddHyperedge(ids, "collaborates")

SpecGraph == InitGraph /\ [][NextGraph]_vars

----------------------------------------------------------------------------
(* A client that loads a fixed manifest of entities and relationships into an
   OrgGraph built without networkx, skipping any item it cannot use *)

LoadIds == {"a", "b", "c", "d", "x"}

Manifest ==
    <<[kind |-> "entity", id |-> "a"],
      [kind |-> "entity", id |-> "b"],
      [kind |-> "entity", id |-> "c"],
      [kind |-> "entity", id |-> "d"],
      [kind |-> "entity", id |-> "x"],
      [kind |-> "edge", source_id |-> "a", target_id |-> "x"],
      [kind |-> "edge", source_id |-> "x", target_id |-> "b"],
      [kind |-> "edge", source_id |-> "a", target_id |-> "c"],
      [kind |-> "edge", source_id |-> "c", target_id |-> "d"],
      [kind |-> "edge", source_id |-> "d", target_id |-> "b"],
      [kind |-> "edge", source_id |-> "c", target_id |-> "b"]>>

\* two of the iteration orders a set of these ids can have
LoadOrders == {<<"a", "b", "c", "d", "x">>, <<"x", "d", "c", "b", "a">>}

InitLoad ==
    /\ HAS_NETWORKX = FALSE
    /\ graph = OrgGraph(HAS_NETWORKX)
    /\ exc = "none"
    /\ ops = 0
    /\ added = EmptyDict
    /\ ScannerIdle
    /\ NoPayload
    /\ remote = None

LoadItem ==
    /\ ops < Len(Manifest)
    /\ LET item == Manifest[ops + 1]
       IN  IF item.kind = "entity"
           THEN LET entity == Entity(item.id, "REPOSITORY",
                                     EntitiesAdded(graph) + 1)
                IN  /\ graph' = add_entity(graph, entity)
                    /\ exc' = add_entity_exc(graph, entity)
                    /\ added' = Put(added, item.id, entity)
           ELSE /\ graph' = add_relationship(graph,
                                Relationship(item.source_id, item.target_id,
                                             "DEPENDS_ON"))
                /\ exc' = "none"
                /\ UNCHANGED added
    /\ ops' = ops + 1
    /\ UNCHANGED <<shapeVars, HAS_NETWORKX, scannerVars>>

SkipItem ==
    /\ ops < Len(Manifest)
    /\ ops' = ops + 1
    /\ UNCHANGED <<shapeVars, HAS_NETWORKX, graph, exc, added, scannerVars>>

NextLoad == LoadItem \/ SkipItem

SpecLoad == InitLoad /\ [][NextLoad]_vars

----------------------------------------------------------------------------
(* graphql/client.py and the remote API behind it *)

\* bound: items per page (page_size, 100 in the source, scaled down; the
\* scanner's `max_repos // 100 + 1` uses the same number)
PageSize == 2

\* bound: repositories the remote organization can hold
MaxRemoteRepos == 3

\* bound: largest max_repos argument tried
MaxReposArg == 2

\* bound: repositories whose issues and PRs are fetched (repos[:10] in the
\* source, scaled down)
IssueRepoLimit == 1

\* how many teams, members, open issues per repository and open PRs per
\* repository the remote organization can hold
ItemCounts == {0, 1}

OrgId == <<"org", 0>>

\* The remote organization: how many items of each kind it holds.  Item k of
\* a kind has the id <<kind, k>>; issue k of repository r has <<"issue", r, k>>.
Remotes ==
    [repos : 0..MaxRemoteRepos, teams : ItemCounts, members : ItemCounts,
     issues : ItemCounts, prs : ItemCounts]

\* The remote's answer to one page request of a connection holding `total`
\* items: the nodes after the cursor and the pageInfo.
remote_page(kind, total, cursor, first) ==
    LET offset == IF cursor = None THEN 0 ELSE cursor[1]
        n == IF total - offset < first THEN total - offset ELSE first
    IN  [nodes |-> [i \in 1..n |-> [id |-> <<kind, offset + i>>]],
         hasNextPage |-> offset + n < total,
         endCursor |-> Some(offset + n)]

\* the locals of paginate() before its loop
paginate_init == [all_items |-> <<>>, cursor |-> None, page |-> 0]

\* a loop body that never looks at max_pages
paginate_step_no_cap(p, success, data, max_pages) ==
    IF ~success
    THEN [p |-> p, done |-> TRUE]
    ELSE LET p1 == [p EXCEPT !.all_items = @ \o data.nodes]
         IN  IF ~data.hasNextPage
             THEN [p |-> p1, done |-> TRUE]
             ELSE [p |-> [p1 EXCEPT !.cursor = data.endCursor, !.page = @ + 1],
                   done |-> FALSE]

\* One pass of paginate()'s loop body after `result = await self.execute(...)`:
\* the new locals and whether the loop has ended.
paginate_step(p, success, data, max_pages) ==
    IF ~success
    THEN [p |-> p, done |-> TRUE]
    ELSE LET p1 == [p EXCEPT !.all_items = @ \o data.nodes]
         IN  IF ~data.hasNextPage
             THEN [p |-> p1, done |-> TRUE]
             ELSE LET p2 == [p1 EXCEPT !.cursor = data.endCursor,
                                       !.page = @ + 1]
                  IN  [p |-> p2,
                       done |-> max_pages # None /\ max_pages[1] # 0
                                /\ p2.page >= max_pages[1]]

----------------------------------------------------------------------------
(* mapper/scanner.py *)

\* ScanResult() (scan_time, a wall-clock float, is left out)
ScanResult ==
    [organization |-> None, repositories |-> <<>>, teams |-> <<>>,
     members |-> <<>>, issues |-> <<>>, pull_requests |-> <<>>,
     projects |-> <<>>, relationships |-> <<>>, errors |-> <<>>]

\* ScanResult.total_entities
total_entities(r) ==
    (IF r.organization # None THEN 1 ELSE 0) + Len(r.repositories)
    + Len(r.teams) + Len(r.members) + Len(r.issues) + Len(r.pull_requests)
    + Len(r.projects)

\* Python truthiness of an Optional[int]
Truthy(n) == n # None /\ n[1] # 0

\* a _scan_organization that looks at the data and not at the errors
scan_organization_data_only(success, has_organization) ==
    IF ~has_organization
    THEN None
    ELSE Some(Entity(OrgId, "ORGANIZATION", 0))

\* _scan_organization after its await: None unless the call succeeded and
\* carried organization data
scan_organization(success, has_organization) ==
    IF ~success \/ ~has_organization
    THEN None
    ELSE Some(Entity(OrgId, "ORGANIZATION", 0))

\* the max_pages argument _scan_repositories passes to paginate
repos_max_pages(max_repos) ==
    IF Truthy(max_repos) THEN Some((max_repos[1] \div PageSize) + 1) ELSE None

\* _scan_repositories after paginate returned repos_data
scan_repositories(repos_data, max_repos) ==
    LET kept == IF Truthy(max_repos) THEN Prefix(repos_data, max_repos[1])
                ELSE repos_data
    IN  [i \in 1..Len(kept) |-> Entity(kept[i].id, "REPOSITORY", 0)]

\* _scan_teams / _scan_members after paginate returned
scan_teams(teams_data) ==
    [i \in 1..Len(teams_data) |-> Entity(teams_data[i].id, "TEAM", 0)]

scan_members(members_data) ==
    [i \in 1..Len(members_data) |-> Entity(members_data[i].id, "MEMBER", 0)]

\* _scan_issues / _scan_pull_requests after their await
scan_issues(success, nodes) ==
    IF ~success THEN <<>>
    ELSE [i \in 1..Len(nodes) |-> Entity(nodes[i].id, "ISSUE", 0)]

scan_pull_requests(success, nodes) ==
    IF ~success THEN <<>>
    ELSE [i \in 1..Len(nodes) |-> Entity(nodes[i].id, "PULL_REQUEST", 0)]

\* a loop that records the entities without storing them in the graph
add_entities_unstored(g, entities, k) ==
    [g |-> g, exc |-> "none", added |-> Len(entities)]

\* `for e in entities: self.graph.add_entity(e)`: the graph after the loop,
\* the exception that ended it, and how many calls returned
RECURSIVE add_entities(_, _, _)
add_entities(g, entities, k) ==
    IF k > Len(entities)
    THEN [g |-> g, exc |-> "none", added |-> Len(entities)]
    ELSE LET e == add_entity_exc(g, entities[k])
             g1 == add_entity(g, entities[k])
         IN  IF e # "none"
             THEN [g |-> g1, exc |-> e, added |-> k - 1]
             ELSE add_entities(g1, entities, k + 1)

\* a loop that leaves out the relationships the graph already holds
RECURSIVE add_relationships_once(_, _, _)
add_relationships_once(g, rels, k) ==
    IF k > Len(rels) THEN g
    ELSE add_relationships_once(
             IF \E i \in DOMAIN g.edges : g.edges[i] = GraphEdge(rels[k])
             THEN g ELSE add_relationship(g, rels[k]),
             rels, k + 1)

\* `for rel in result.relationships: self.graph.add_relationship(rel)`
RECURSIVE add_relationships(_, _, _)
add_relationships(g, rels, k) ==
    IF k > Len(rels) THEN g
    ELSE add_relationships(add_relationship(g, rels[k]), rels, k + 1)

\* the relationships the repository loop and the member loop append
owns(org, entities) ==
    [i \in 1..Len(entities) |-> Relationship(org.id, entities[i].id, "OWNS")]

member_of(org, entities) ==
    [i \in 1..Len(entities) |->
        Relationship(entities[i].id, org.id, "MEMBER_OF")]

\* get_scan_result(): the stored result of the last scan
get_scan_result == scan_result

\* a loop over every repository instead of repos[:10]
issue_repos_all(rps) == rps

\* repos[:10]
issue_repos(rps) == Prefix(rps, IssueRepoLimit)

Call(kind, arg, success) == [kind |-> kind, arg |-> arg, success |-> success]

InitScan ==
    /\ HAS_NETWORKX \in BOOLEAN
    /\ graph = OrgGraph(HAS_NETWORKX)
    /\ exc = "none"
    /\ ops = 0
    /\ added = EmptyDict
    /\ ScannerIdle
    /\ NoPayload
    /\ remote \in Remotes

\* scan() suspends at the next await
Goto(next_pc, res, g, rps, idx) ==
    /\ pc' = next_pc
    /\ result' = Some(res)
    /\ graph' = g
    /\ repos' = rps
    /\ repo_idx' = idx
    /\ pag' = IF next_pc \in {"repos", "teams", "members"}
              THEN Some(paginate_init) ELSE None
    /\ exc' = "none"
    /\ UNCHANGED <<returned, scan_result>>

\* scanner.py:163-171: build the relationships, store and return the result
Finish(res, g, rps) ==
    /\ pc' = "done"
    /\ result' = Some(res)
    /\ graph' = add_relationships(g, res.relationships, 1)
    /\ repos' = rps
    /\ repo_idx' = 0
    /\ pag' = None
    /\ exc' = "none"
    /\ scan_result' = Some(res)
    /\ returned' = Some(res)

\* an exception leaves scan() through `async with`
Raise(e, res, g, rps) ==
    /\ pc' = "done"
    /\ result' = Some(res)
    /\ graph' = g
    /\ repos' = rps
    /\ repo_idx' = 0
    /\ pag' = None
    /\ exc' = e
    /\ UNCHANGED <<returned, scan_result>>

\* scanner.py:146-161: the step of the issue/PR loop that follows the fetch
\* for repository idx (idx = 0: the loop has not started)
NextFetch(after, res, g, rps, idx) ==
    LET a == args[1]
        n == Len(issue_repos(rps))
    IN  IF after = "issues" /\ a.include_prs
        THEN Goto("prs", res, g, rps, idx)
        ELSE IF (a.include_issues \/ a.include_prs) /\ idx < n
        THEN Goto(IF a.include_issues THEN "issues" ELSE "prs",
                  res, g, rps, idx + 1)
        ELSE Finish(res, g, rps)

\* scan() is called: scanner.py:95-106
ScanStart(include_issues, include_prs, max_repos) ==
    /\ pc = "idle"
    /\ pc' = "org"
    /\ args' = Some([include_issues |-> include_issues,
                     include_prs |-> include_prs, max_repos |-> max_repos])
    /\ result' = Some(ScanResult)
    /\ exc' = "none"
    /\ UNCHANGED <<shapeVars, HAS_NETWORKX, graph, ops, added, returned,
                   scan_result, pag, repos, repo_idx, remote, calls>>

\* scanner.py:107-113: the organization overview answers
ScanOrganization(success, has_organization) ==
    /\ pc = "org"
    /\ calls' = Append(calls, Call("org_overview", has_organization, success))
    /\ LET org == scan_organization(success, has_organization)
           res == result[1]
       IN  IF org = None
           THEN /\ pc' = "done"
                /\ result' = Some([res EXCEPT !.errors =
                                      Append(@, "Failed to scan organization")])
                /\ returned' = result'
                /\ exc' = "none"
                /\ UNCHANGED <<graph, scan_result, pag, repos, repo_idx>>
           ELSE LET res1 == [res EXCEPT !.organization = org]
                    e == add_entity_exc(graph, org[1])
                    g == add_entity(graph, org[1])
                IN  IF e # "none"
                    THEN Raise(e, res1, g, repos)
                    ELSE Goto("repos", res1, g, repos, 0)
    /\ UNCHANGED <<shapeVars, HAS_NETWORKX, ops, added, args, remote>>

\* scanner.py:117-125 with client.py:250-277: one page of repositories answers
PaginateRepositories(success) ==
    /\ pc = "repos"
    /\ calls' = Append(calls, Call("repos", pag[1].cursor, success))
    /\ LET max_repos == args[1].max_repos
           data == remote_page("repo", remote.repos, pag[1].cursor, PageSize)
           step == paginate_step(pag[1], success, data,
                                 repos_max_pages(max_repos))
           res == result[1]
       IN  IF ~step.done
           THEN /\ pag' = Some(step.p)
                /\ UNCHANGED <<pc, result, graph, repos, repo_idx, exc,
                               returned, scan_result>>
           ELSE LET rps == scan_repositories(step.p.all_items, max_repos)
                    res1 == [res EXCEPT !.repositories = rps]
                    a == add_entities(graph, rps, 1)
                    res2 == [res1 EXCEPT !.relationships =
                               @ \o owns(res.organization[1],
                                         Prefix(rps, a.added))]
                IN  IF a.exc # "none"
                    THEN Raise(a.exc, res2, a.g, rps)
                    ELSE Goto("teams", res2, a.g, rps, 0)
    /\ UNCHANGED <<shapeVars, HAS_NETWORKX, ops, added, args, remote>>

\* scanner.py:129-132: one page of teams answers
PaginateTeams(success) ==
    /\ pc = "teams"
    /\ calls' = Append(calls, Call("teams", pag[1].cursor, success))
    /\ LET data == remote_page("team", remote.teams, pag[1].cursor, PageSize)
           step == paginate_step(pag[1], success, data, None)
           res == result[1]
       IN  IF ~step.done
           THEN /\ pag' = Some(step.p)
                /\ UNCHANGED <<pc, result, graph, repos, repo_idx, exc,
                               returned, scan_result>>
           ELSE LET teams == scan_teams(step.p.all_items)
                    res1 == [res EXCEPT !.teams = teams]
                    a == add_entities(graph, teams, 1)
                IN  IF a.exc # "none"
                    THEN Raise(a.exc, res1, a.g, repos)
                    ELSE Goto("members", res1, a.g, repos, 0)
    /\ UNCHANGED <<shapeVars, HAS_NETWORKX, ops, added, args, remote>>

\* scanner.py:136-147: one page of members answers
PaginateMembers(success) ==
    /\ pc = "members"
    /\ calls' = Append(calls, Call("members", pag[1].cursor, success))
    /\ LET data == remote_page("member", remote.members, pag[1].cursor,
                               PageSize)
           step == paginate_step(pag[1], success, data, None)
           res == result[1]
       IN  IF ~step.done
           THEN /\ pag' = Some(step.p)
                /\ UNCHANGED <<pc, result, graph, repos, repo_idx, exc,
                               returned, scan_result>>
           ELSE LET members == scan_members(step.p.all_items)
                    res1 == [res EXCEPT !.members = members]
                    a == add_entities(graph, members, 1)
                    res2 == [res1 EXCEPT !.relationships =
                               @ \o member_of(res.organization[1],
                                              Prefix(members, a.added))]
                IN  IF a.exc # "none"
                    THEN Raise(a.exc, res2, a.g, repos)
                    ELSE NextFetch("members", res2, a.g, repos, 0)
    /\ UNCHANGED <<shapeVars, HAS_NETWORKX, ops, added, args, remote>>

\* scanner.py:149-154: the issues of repository repo_idx answer
ScanIssues(success) ==
    /\ pc = "issues"
    /\ LET repo == repos[repo_idx]
           nodes == [k \in 1..remote.issues |->
                        [id |-> <<"issue", repo.id[2], k>>]]
           issues == scan_issues(success, nodes)
           res == result[1]
           res1 == [res EXCEPT !.issues = @ \o issues]
           a == add_entities(graph, issues, 1)
       IN  /\ calls' = Append(calls, Call("issues", repo.id, success))
           /\ IF a.exc # "none"
              THEN Raise(a.exc, res1, a.g, repos)
              ELSE NextFetch("issues", res1, a.g, repos, repo_idx)
    /\ UNCHANGED <<shapeVars, HAS_NETWORKX, ops, added, args, remote>>

\* scanner.py:156-161: the pull requests of repository repo_idx answer
ScanPullRequests(success) ==
    /\ pc = "prs"
    /\ LET repo == repos[repo_idx]
           nodes == [k \in 1..remote.prs |->
                        [id |-> <<"pr", repo.id[2], k>>]]
           prs == scan_pull_requests(success, nodes)
           res == result[1]
           res1 == [res EXCEPT !.pull_requests = @ \o prs]
           a == add_entities(graph, prs, 1)
       IN  /\ calls' = Append(calls, Call("prs", repo.id, success))
           /\ IF a.exc # "none"
              THEN Raise(a.exc, res1, a.g, repos)
              ELSE NextFetch("prs", res1, a.g, repos, repo_idx)
    /\ UNCHANGED <<shapeVars, HAS_NETWORKX, ops, added, args, remote>>

MaxReposArgs == {None} \cup {Some(m) : m \in 0..MaxReposArg}

NextScan ==
    \/ \E ii \in BOOLEAN, ip \in BOOLEAN, m \in MaxReposArgs :
          ScanStart(ii, ip, m)
    \/ \E s \in BOOLEAN, o \in BOOLEAN : ScanOrganization(s, o)
    \/ \E s \in BOOLEAN : PaginateRepositories(s)
    \/ \E s \in BOOLEAN : PaginateTeams(s)
    \/ \E s \in BOOLEAN : PaginateMembers(s)
    \/ \E s \in BOOLEAN : ScanIssues(s)
    \/ \E s \in BOOLEAN : ScanPullRequests(s)

Spec == InitScan /\ [][NextScan]_vars

\* The task running scan() is cancelled while scan is suspended at an await:
\* asyncio raises CancelledError at that await.  CancelledError is a
\* BaseException, so execute's `except Exception` (client.py:210) lets it
\* through, and scan has no handler of its own: it leaves through
\* `async with` (scanner.py:104).
Cancel ==
    /\ pc \in {"org", "repos", "teams", "members", "issues", "prs"}
    /\ Raise("CancelledError", result[1], graph, repos)
    /\ UNCHANGED <<shapeVars, HAS_NETWORKX, ops, added, args, remote, calls>>

NextCancel == NextScan \/ Cancel

SpecCancel == InitScan /\ [][NextCancel]_vars

\* bound: scan() calls one client makes on one OrganizationMapper
MaxScans == 2

\* The client calls scan() again, with the same arguments, once the call
\* before it has returned or raised: a new ScanResult and new locals, the
\* same graph and the same stored result (scanner.py:95-106).  `ops` counts
\* the calls made after the first.
ScanAgain ==
    /\ pc = "done"
    /\ ops < MaxScans - 1
    /\ ops' = ops + 1
    /\ pc' = "org"
    /\ result' = Some(ScanResult)
    /\ exc' = "none"
    /\ pag' = None
    /\ repos' = <<>>
    /\ repo_idx' = 0
    /\ UNCHANGED <<shapeVars, HAS_NETWORKX, graph, added, args, returned,
                   scan_result, remote, calls>>

NextRepeat == NextScan \/ ScanAgain

NextRescan == NextRepeat \/ Cancel

\* the remote organizations the repeated scans are run against
RescanRemotes == {r \in Remotes : r.teams = r.members /\ r.issues = r.prs}

InitRescan == InitScan /\ remote \in RescanRemotes

SpecRepeat == InitRescan /\ [][NextRepeat]_vars

SpecRescan == InitRescan /\ [][NextRescan]_vars

----------------------------------------------------------------------------
(* mapper/scanner.py: building entities from the nodes of a response *)

\* A node of a response is a dict whose values are JSON values: None stands
\* for null and Some(v) for the value v; an object is a record.  A Python
\* value that can be None is written the same way.

IssueState == {"OPEN", "CLOSED"}
PRState == {"OPEN", "CLOSED", "MERGED"}
ReviewDecision == {"APPROVED", "CHANGES_REQUESTED", "REVIEW_REQUIRED", "NONE"}

\* `d.get(key, "") or ""`
GetOrEmpty(d, key) ==
    LET v == Get(d, key, Some(""))
    IN  IF v = None \/ v[1] = "" THEN "" ELSE v[1]

\* `d.get(key, {}).get(inner, default) if d.get(key) else default`
GetInner(d, key, inner, default) ==
    IF Get(d, key, None) # None
    THEN Get(Get(d, key, Some(EmptyDict))[1], inner, default)
    ELSE default

\* `d.get(key, {}).get("nodes", [])` raises when d[key] is null
NodesRaise(d, key) == Get(d, key, Some(EmptyDict)) = None

\* `[n.get(inner, "") for n in d.get(key, {}).get("nodes", [])]`
NodeNames(d, key, inner) ==
    LET nodes == Get(Get(d, key, Some(EmptyDict))[1], "nodes", <<>>)
    IN  [i \in 1..Len(nodes) |-> Get(nodes[i], inner, "")]

\* a Repository that reads the primaryLanguage object without testing it
Repository_unguarded(repo_data) ==
    IF Get(repo_data, "primaryLanguage", Some(EmptyDict)) = None
       \/ NodesRaise(repo_data, "languages")
    THEN [exc |-> "AttributeError", value |-> None]
    ELSE [exc |-> "none",
          value |-> Some(
            [entity_type |-> "REPOSITORY",
             description |-> GetOrEmpty(repo_data, "description"),
             is_private |-> Get(repo_data, "isPrivate", Some(FALSE)),
             primary_language |->
                Get(Get(repo_data, "primaryLanguage", Some(EmptyDict))[1],
                    "name", ""),
             default_branch |->
                GetInner(repo_data, "defaultBranchRef", "name", "main"),
             disk_usage |-> Get(repo_data, "diskUsage", Some(0)),
             languages |-> NodeNames(repo_data, "languages", "name")])]

\* the Repository(...) built from one node of the repositories connection:
\* the exception the construction ends with, or the entity
Repository(repo_data) ==
    IF NodesRaise(repo_data, "languages")
    THEN [exc |-> "AttributeError", value |-> None]
    ELSE [exc |-> "none",
          value |-> Some(
            [entity_type |-> "REPOSITORY",
             description |-> GetOrEmpty(repo_data, "description"),
             is_private |-> Get(repo_data, "isPrivate", Some(FALSE)),
             primary_language |->
                GetInner(repo_data, "primaryLanguage", "name", ""),
             default_branch |->
                GetInner(repo_data, "defaultBranchRef", "name", "main"),
             disk_usage |-> Get(repo_data, "diskUsage", Some(0)),
             languages |-> NodeNames(repo_data, "languages", "name")])]

\* the Issue(...) built from one node of the issues connection
Issue(issue_data) ==
    LET state == Get(issue_data, "state", Some("OPEN"))
    IN  IF state = None \/ state[1] \notin IssueState
        THEN [exc |-> "KeyError", value |-> None]
        ELSE IF NodesRaise(issue_data, "labels")
        THEN [exc |-> "AttributeError", value |-> None]
        ELSE [exc |-> "none",
              value |-> Some(
                [entity_type |-> "ISSUE",
                 number |-> Get(issue_data, "number", Some(0)),
                 title |-> Get(issue_data, "title", Some("")),
                 state |-> state[1],
                 author_login |-> GetInner(issue_data, "author", "login", ""),
                 labels |-> NodeNames(issue_data, "labels", "name")])]

\* the PullRequest(...) built from one node of the pullRequests connection
PullRequest(pr_data) ==
    LET state == Get(pr_data, "state", Some("OPEN"))
        decision == Get(pr_data, "reviewDecision", None)
    IN  IF state = None \/ state[1] \notin PRState
        THEN [exc |-> "KeyError", value |-> None]
        ELSE IF decision # None /\ decision[1] # ""
                /\ decision[1] \notin ReviewDecision
        THEN [exc |-> "KeyError", value |-> None]
        ELSE [exc |-> "none",
              value |-> Some(
                [entity_type |-> "PULL_REQUEST",
                 number |-> Get(pr_data, "number", Some(0)),
                 state |-> state[1],
                 author_login |-> GetInner(pr_data, "author", "login", ""),
                 head_ref |-> Get(pr_data, "headRefName", Some("")),
                 additions |-> Get(pr_data, "additions", Some(0)),
                 review_decision |->
                    IF decision # None /\ decision[1] # ""
                    THEN decision[1] ELSE "NONE"])]

(* A client that hands response nodes of every shape to the constructors *)

\* how a key of a node can come: absent, null, or with a value
Shapes == {"missing", "null", "value"}

\* the values the keys carry when they carry one
RepositoryValues ==
    [description |-> "maps an organization",
     isPrivate |-> TRUE,
     primaryLanguage |-> [name |-> "Python"],
     defaultBranchRef |-> [name |-> "develop"],
     diskUsage |-> 7,
     languages |-> [nodes |-> <<[name |-> "Python"], [name |-> "Shell"]>>]]

IssueValues ==
    [number |-> 7,
     title |-> "a title",
     state |-> "CLOSED",
     author |-> [login |-> "octocat"],
     labels |-> [nodes |-> <<[name |-> "bug"]>>]]

PullRequestValues ==
    [number |-> 7,
     state |-> "MERGED",
     author |-> [login |-> "octocat"],
     headRefName |-> "feature",
     additions |-> 7,
     reviewDecision |-> "APPROVED"]

\* the dict in which each key comes as `shape` says
MakeDict(shape, values) ==
    [k \in {j \in DOMAIN shape : shape[j] # "missing"} |->
        IF shape[k] = "null" THEN None ELSE Some(values[k])]

\* the nodes handed over: every key absent or present, the objects also null
NodeShapes(values) == [DOMAIN values -> Shapes]

Payloads ==
    {[kind |-> "repository", shape |-> s,
      data |-> MakeDict(s, RepositoryValues)] :
        s \in {t \in NodeShapes(RepositoryValues) :
                 t.isPrivate # "null" /\ t.diskUsage # "null"}}
    \cup
    {[kind |-> "issue", shape |-> s, data |-> MakeDict(s, IssueValues)] :
        s \in {t \in NodeShapes(IssueValues) :
                 t.number # "null" /\ t.title # "null" /\ t.state # "null"}}
    \cup
    {[kind |-> "pull_request", shape |-> s,
      data |-> MakeDict(s, PullRequestValues)] :
        s \in {t \in NodeShapes(PullRequestValues) :
                 /\ t.number # "null" /\ t.state # "null"
                 /\ t.headRefName # "null" /\ t.additions # "null"}}

InitShape ==
    /\ HAS_NETWORKX = FALSE
    /\ graph = OrgGraph(HAS_NETWORKX)
    /\ exc = "none"
    /\ ops = 0
    /\ added = EmptyDict
    /\ ScannerIdle
    /\ remote = None
    /\ payload \in {Some(p) : p \in Payloads}
    /\ built = None

\* scanner.py:216-238
BuildRepository ==
    /\ built = None
    /\ payload[1].kind = "repository"
    /\ built' = Some(Repository(payload[1].data))
    /\ UNCHANGED <<payload, graphClientVars, scannerVars>>

\* scanner.py:309-322
BuildIssue ==
    /\ built = None
    /\ payload[1].kind = "issue"
    /\ built' = Some(Issue(payload[1].data))
    /\ UNCHANGED <<payload, graphClientVars, scannerVars>>

\* scanner.py:342-361
BuildPullRequest ==
    /\ built = None
    /\ payload[1].kind = "pull_request"
    /\ built' = Some(PullRequest(payload[1].data))
    /\ UNCHANGED <<payload, graphClientVars, scannerVars>>

NextShape == BuildRepository \/ BuildIssue \/ BuildPullRequest

SpecShape == InitShape /\ [][NextShape]_vars

----------------------------------------------------------------------------
(* Properties *)

\* an edge a -> b is in the edge list
StoredEdge(g, a, b) ==
    \E i \in DOMAIN g.edges :
        g.edges[i].source_id = a /\ g.edges[i].target_id = b

\* the ids reachable from the ids in S along stored edges (S included)
RECURSIVE Reach(_, _)
Reach(g, S) ==
    LET T == S \cup {e.target_id : e \in {x \in Range(g.edges) : x.source_id \in S}}
    IN  IF T = S THEN S ELSE Reach(g, T)

\* the least number of stored edges leading from the frontier to b, or -1
RECURSIVE Dist(_, _, _, _, _)
Dist(g, frontier, seen, b, d) ==
    IF b \in frontier THEN d
    ELSE LET next == {e.target_id :
                        e \in {x \in Range(g.edges) : x.source_id \in frontier}}
                     \ seen
         IN  IF next = {} THEN -1 ELSE Dist(g, next, seen \cup next, b, d + 1)

NodeIdSeq(nodes) == [i \in 1..Len(nodes) |-> nodes[i].id]

\* the organization overview has answered with success and organization data
OrgOk == calls # <<>> /\ calls[1].success /\ calls[1].arg

\* no call of this kind has failed
NoFailure(kind) == \A i \in DOMAIN calls : calls[i].kind = kind => calls[i].success

Attempted(kind) == \E i \in DOMAIN calls : calls[i].kind = kind

\* the items the remote holds for a connection, in fetch order
RemoteIds(kind, n) == [i \in 1..n |-> <<kind, i>>]

Min(a, b) == IF a < b THEN a ELSE b

OfType(rels, relation_type) ==
    SelectSeq(rels, LAMBDA r : r.relation_type = relation_type)

\* C1: Scan fatal gate.  Whenever the organization overview call fails or
\* returns no organization data, scan raises no exception and returns a
\* ScanResult with organization None, every entity list and the relationship
\* list empty and exactly one error string; no further transport call is
\* issued and the graph is left as it was constructed.
C1_ScanFatalGate ==
    (calls # <<>> /\ ~OrgOk) =>
        /\ pc = "done"
        /\ exc = "none"
        /\ returned # None
        /\ returned[1] = [ScanResult EXCEPT !.errors = returned[1].errors]
        /\ Len(returned[1].errors) = 1
        /\ Len(calls) = 1
        /\ graph = OrgGraph(HAS_NETWORKX)

\* the overview call came back with errors next to organization data, and
\* scan has returned
C1_Witness ==
    /\ Len(calls) = 1
    /\ calls[1].arg
    /\ ~calls[1].success
    /\ returned # None

\* C2: Scan degraded continuation.  When the organization query succeeds,
\* then whichever later fetches fail, scan raises no exception, attempts the
\* repositories, teams and members stages and the issue and PR fetch of each
\* of the first repositories, and returns a ScanResult in which every stage
\* that did not fail is populated with what the remote holds.
C2_DegradedContinuation ==
    (pc = "done" /\ OrgOk) =>
        /\ exc = "none"
        /\ returned # None
        /\ Attempted("repos") /\ Attempted("teams") /\ Attempted("members")
        /\ LET r == returned[1]
               a == args[1]
               first == issue_repos(r.repositories)
           IN  /\ r.organization # None
               /\ NoFailure("repos") /\ ~Truthy(a.max_repos) =>
                     NodeIdSeq(r.repositories) = RemoteIds("repo", remote.repos)
               /\ NoFailure("teams") =>
                     NodeIdSeq(r.teams) = RemoteIds("team", remote.teams)
               /\ NoFailure("members") =>
                     NodeIdSeq(r.members) = RemoteIds("member", remote.members)
               /\ \A i \in DOMAIN first :
                     /\ a.include_issues =>
                           \E j \in DOMAIN calls :
                               /\ calls[j].kind = "issues"
                               /\ calls[j].arg = first[i].id
                               /\ calls[j].success =>
                                     \A k \in 1..remote.issues :
                                         <<"issue", first[i].id[2], k>>
                                             \in Range(NodeIdSeq(r.issues))
                     /\ a.include_prs =>
                           \E j \in DOMAIN calls :
                               /\ calls[j].kind = "prs"
                               /\ calls[j].arg = first[i].id
                               /\ calls[j].success =>
                                     \A k \in 1..remote.prs :
                                         <<"pr", first[i].id[2], k>>
                                             \in Range(NodeIdSeq(r.pull_requests))

\* C3: maxRepos cap.  For every max_repos = m >= 1 and a remote offering N
\* repositories over pages of PageSize with all pages succeeding, scan
\* returns exactly the first min(m, N) repositories in fetch order and
\* exactly that many OWNS relationships.
C3_MaxReposCap ==
    (/\ pc = "done"
     /\ OrgOk
     /\ NoFailure("repos")
     /\ Truthy(args[1].max_repos)) =>
        /\ returned # None
        /\ LET n == Min(args[1].max_repos[1], remote.repos)
           IN  /\ NodeIdSeq(returned[1].repositories) = RemoteIds("repo", n)
               /\ Len(OfType(returned[1].relationships, "OWNS")) = n

\* C4: End-to-end result of a fully successful scan on a fresh scanner.
\* total_entities is 1 + the numbers of repositories, teams, members, issues
\* and pull requests; the graph's edge list equals ScanResult.relationships
\* and consists of one OWNS edge organization -> repository per returned
\* repository, one MEMBER_OF edge member -> organization per returned member
\* and nothing else.
C4_EndToEndResult ==
    (pc = "done" /\ OrgOk /\ \A i \in DOMAIN calls : calls[i].success) =>
        /\ returned # None
        /\ LET r == returned[1]
           IN  /\ total_entities(r) =
                     1 + Len(r.repositories) + Len(r.teams) + Len(r.members)
                       + Len(r.issues) + Len(r.pull_requests)
               /\ graph.edges = r.relationships
               /\ \A i \in DOMAIN r.repositories :
                     Count(graph.edges,
                           Relationship(OrgId, r.repositories[i].id, "OWNS")) = 1
               /\ \A i \in DOMAIN r.members :
                     Count(graph.edges,
                           Relationship(r.members[i].id, OrgId, "MEMBER_OF")) = 1
               /\ Len(graph.edges) = Len(r.repositories) + Len(r.members)

NoRepeat(s) == \A i, j \in DOMAIN s : i # j => s[i] # s[j]

\* C5: Node identity (last write wins).  After any sequence of add_entity
\* calls, get_entity(id) is the node built from the last entity added with
\* that id (its entity type and its record), it is None for an id never
\* added, and the node count is the number of distinct ids added.
C5_NodeIdentity ==
    /\ \A id \in Ids :
          get_entity(graph, id) =
              IF id \in DOMAIN added
              THEN Some([id |-> id,
                         entity_type |-> added[id].entity_type,
                         data |-> to_dict(added[id])])
              ELSE None
    /\ Cardinality(DOMAIN graph.nodes) = Cardinality(DOMAIN added)

\* an id has been added under two different entity types, and an id never
\* added is looked up
C5_Witness ==
    /\ \E id \in DOMAIN added :
          /\ \E t1, t2 \in DOMAIN graph.nodes_by_type :
                /\ t1 # t2
                /\ id \in Range(graph.nodes_by_type[t1])
                /\ id \in Range(graph.nodes_by_type[t2])
          /\ get_entity(graph, id)[1].data.fields = EntitiesAdded(graph)
    /\ \E id \in Ids : id \notin DOMAIN added /\ get_entity(graph, id) = None

\* C6: Edge indexing invariant.  After any sequence of add_entity /
\* add_relationship / add_hyperedge calls, every edge of the edge list is in
\* edges_by_source[its source], edges_by_target[its target] and
\* edges_by_type[its type] as often as it is in the edge list, the buckets
\* hold nothing else, and the lists get_relationships_from(x) over all x
\* together hold exactly the edges of the edge list.
C6_EdgeIndexing ==
    /\ \A e \in Range(graph.edges) :
          /\ Count(get_relationships_from(graph, e.source_id), e)
                = Count(graph.edges, e)
          /\ Count(get_relationships_to(graph, e.target_id), e)
                = Count(graph.edges, e)
          /\ Count(get_relationships_by_type(graph, e.relation_type), e)
                = Count(graph.edges, e)
    /\ \A k \in DOMAIN graph.edges_by_source :
          \A e \in Range(graph.edges_by_source[k]) :
              e.source_id = k /\ e \in Range(graph.edges)
    /\ \A k \in DOMAIN graph.edges_by_target :
          \A e \in Range(graph.edges_by_target[k]) :
              e.target_id = k /\ e \in Range(graph.edges)
    /\ \A k \in DOMAIN graph.edges_by_type :
          \A e \in Range(graph.edges_by_type[k]) :
              e.relation_type = k /\ e \in Range(graph.edges)
    /\ \A x \in Ids :
          \A i \in DOMAIN get_relationships_from(graph, x) :
              get_relationships_from(graph, x)[i] \in Range(graph.edges)

\* the edge list holds the same triple twice and edges of two sources, and a
\* hyperedge has been added
C6_Witness ==
    /\ \E i, j \in DOMAIN graph.edges :
          i # j /\ graph.edges[i] = graph.edges[j]
    /\ Len(graph.hyperedges) > 0

\* C7 as stated: get_neighbors(a, "outgoing") contains b if and only if an
\* edge a -> b is stored, and get_neighbors(a, "both") is the union of the
\* outgoing and the incoming neighbor sets with no neighbor listed twice.
C7_NeighborSymmetry_Stated ==
    \A a \in Ids, order \in IdOrders :
        LET out == Range(NodeIdSeq(get_neighbors(graph, a, "outgoing", order)))
            inc == Range(NodeIdSeq(get_neighbors(graph, a, "incoming", order)))
            both == NodeIdSeq(get_neighbors(graph, a, "both", order))
        IN  /\ \A b \in Ids : (b \in out) <=> StoredEdge(graph, a, b)
            /\ Range(both) = out \cup inc
            /\ NoRepeat(both)

\* C7 as amended: get_neighbors(a, "outgoing") contains b if and only if an
\* edge a -> b is stored and b is a node of the graph; get_neighbors(a,
\* "both") is the union of the outgoing and the incoming neighbor sets with
\* no neighbor listed twice.
C7_NeighborSymmetry ==
    \A a \in Ids, order \in IdOrders :
        LET out == Range(NodeIdSeq(get_neighbors(graph, a, "outgoing", order)))
            inc == Range(NodeIdSeq(get_neighbors(graph, a, "incoming", order)))
            both == NodeIdSeq(get_neighbors(graph, a, "both", order))
        IN  /\ \A b \in Ids :
                  (b \in out) <=>
                      (StoredEdge(graph, a, b) /\ b \in DOMAIN graph.nodes)
            /\ Range(both) = out \cup inc
            /\ NoRepeat(both)

\* a node that is both an outgoing and an incoming neighbor of a, listed once
C7_Witness ==
    \E a, b \in Ids :
        /\ a # b
        /\ StoredEdge(graph, a, b)
        /\ StoredEdge(graph, b, a)
        /\ b \in DOMAIN graph.nodes
        /\ \A order \in IdOrders :
              NodeIdSeq(get_neighbors(graph, a, "both", order)) = <<b>>

\* C8: Path correctness.  For all nodes a, b, find_path(a, b) returns None if
\* and only if b is not reachable from a along stored edges; otherwise the
\* returned list starts with a, ends with b, and every two consecutive
\* elements are joined by a stored edge from the earlier to the later.
C8_PathCorrectness ==
    \A a \in DOMAIN graph.nodes, b \in DOMAIN graph.nodes, order \in LoadOrders :
        LET r == find_path(graph, a, b, order)
        IN  /\ r.exc = "none"
            /\ (r.value = None) <=> (b \notin Reach(graph, {a}))
            /\ r.value # None =>
                  LET path == r.value[1]
                  IN  /\ path[1] = a
                      /\ path[Len(path)] = b
                      /\ \A i \in 1..(Len(path) - 1) :
                            StoredEdge(graph, path[i], path[i + 1])

\* C9: Shortest path.  Whenever find_path(a, b) returns a path, no directed
\* path from a to b over stored edges has fewer edges than the returned one,
\* and the returned path repeats no node.
C9_ShortestPath ==
    \A a \in DOMAIN graph.nodes, b \in DOMAIN graph.nodes, order \in LoadOrders :
        LET r == find_path(graph, a, b, order)
        IN  (r.exc = "none" /\ r.value # None) =>
                /\ Len(r.value[1]) - 1 <= Dist(graph, {a}, {a}, b, 0)
                /\ NoRepeat(r.value[1])

\* C10: find_path(source_id, target_id) returns None, without raising,
\* whenever source_id or target_id is not a node of the graph, including the
\* case source_id = target_id.
C10_AbsentIdsGiveNone ==
    \A a \in Ids, b \in Ids, order \in IdOrders :
        (a \notin DOMAIN graph.nodes \/ b \notin DOMAIN graph.nodes) =>
            find_path(graph, a, b, order) = [exc |-> "none", value |-> None]

\* the ids joined to the ids in S by stored edges taken in either direction
RECURSIVE UReach(_, _)
UReach(g, S) ==
    LET T == S \cup {e.target_id : e \in {x \in Range(g.edges) : x.source_id \in S}}
               \cup {e.source_id : e \in {x \in Range(g.edges) : x.target_id \in S}}
    IN  IF T = S THEN S ELSE UReach(g, T)

\* C11: Clustering totality.  find_clusters() returns a partition of exactly
\* the current node set: every node id is in exactly one returned set, no
\* set holds an id that is not a node, and two nodes are in the same set if
\* and only if some path of stored edges, taken as undirected, joins them.
C11_ClusteringTotality ==
    \A node_order \in LoadOrders, order \in LoadOrders :
        LET cs == find_clusters(graph, node_order, order)
        IN  /\ \A id \in DOMAIN graph.nodes :
                  Cardinality({i \in DOMAIN cs : id \in cs[i]}) = 1
            /\ \A i \in DOMAIN cs : cs[i] \subseteq DOMAIN graph.nodes
            /\ \A a \in DOMAIN graph.nodes, b \in DOMAIN graph.nodes :
                  (\E i \in DOMAIN cs : a \in cs[i] /\ b \in cs[i])
                      <=> (b \in UReach(graph, {a}))

\* C12: Centrality bound.  In every graph state reachable through add_entity
\* and add_relationship, every value of compute_centrality() is at least 0
\* and at most 1.
C12_CentralityBound ==
    LET c == compute_centrality(graph)
    IN  \A id \in DOMAIN c :
            /\ c[id].den > 0
            /\ 0 <= c[id].num
            /\ c[id].num <= c[id].den

\* C13: compute_centrality() on a graph with at most one node yields 0 for
\* that node, and the empty map for the graph without nodes, whatever edges
\* have been added.
C13_CentralitySingleNode ==
    Cardinality(DOMAIN graph.nodes) <= 1 =>
        LET c == compute_centrality(graph)
        IN  /\ DOMAIN c = DOMAIN graph.nodes
            /\ \A id \in DOMAIN c : c[id].num = 0

\* a cancellation has been delivered to the scan
Cancelled == pc = "done" /\ exc = "CancelledError"

\* the entities of a ScanResult
ResultEntities(r) ==
    r.organization \o r.repositories \o r.teams \o r.members \o r.issues
    \o r.pull_requests

\* C14: Cancellation.  If scan is cancelled while awaiting a transport call,
\* the graph keeps everything written before the cancellation and scan
\* returns a ScanResult that reflects the stages completed so far, with a
\* cancellation error string appended to errors.
C14_Cancellation ==
    Cancelled =>
        /\ \A i \in DOMAIN ResultEntities(result[1]) :
              ResultEntities(result[1])[i].id \in DOMAIN graph.nodes
        /\ returned # None
        /\ ResultEntities(returned[1]) = ResultEntities(result[1])
        /\ Len(returned[1].errors) = 1

\* C15: Stage atomicity.  At every point of a scan after the repository stage
\* the graph holds every repository of the stage and an OWNS edge
\* organization -> repository for each; at every point after the member
\* stage it holds every member and a MEMBER_OF edge member -> organization
\* for each.
C15_StageAtomicity ==
    /\ pc \in {"teams", "members", "issues", "prs"} =>
          \A i \in DOMAIN result[1].repositories :
              /\ result[1].repositories[i].id \in DOMAIN graph.nodes
              /\ StoredEdge(graph, OrgId, result[1].repositories[i].id)
    /\ pc \in {"issues", "prs"} =>
          \A i \in DOMAIN result[1].members :
              /\ result[1].members[i].id \in DOMAIN graph.nodes
              /\ StoredEdge(graph, result[1].members[i].id, OrgId)

Directions == {"outgoing", "incoming", "both"}

\* C16: get_neighbors(id, direction) returns the empty list for every id that
\* is not a node of the graph, for each direction, in every state reachable
\* through add_entity and add_relationship.
C16_UnknownIdNoNeighbors ==
    \A id \in Ids, direction \in Directions, order \in IdOrders :
        id \notin DOMAIN graph.nodes =>
            get_neighbors(graph, id, direction, order) = <<>>

\* the id lists get_subgraph is asked for
SubgraphIdLists == {<<>>, <<"a">>, <<"b", "a">>, <<"a", "zz", "a">>}

\* C17: get_subgraph(ids, include_relationships) returns a new graph whose
\* node-id set is ids intersected with the current nodes, each node keeping
\* its entity type; with include_relationships its edge list is the stored
\* edges whose two endpoints are both in ids, in stored order, and without it
\* the edge list is empty.
C17_Subgraph ==
    \A ids \in SubgraphIdLists, include_relationships \in BOOLEAN :
        LET r == get_subgraph(graph, ids, include_relationships)
        IN  /\ r.exc = "none"
            /\ r.value # None
            /\ LET sub == r.value[1]
               IN  /\ DOMAIN sub.nodes = Range(ids) \cap DOMAIN graph.nodes
                   /\ \A id \in DOMAIN sub.nodes :
                         sub.nodes[id].entity_type = graph.nodes[id].entity_type
                   /\ sub.edges =
                         IF include_relationships
                         THEN SelectSeq(graph.edges,
                                  LAMBDA e : e.source_id \in Range(ids)
                                             /\ e.target_id \in Range(ids))
                         ELSE <<>>

NodesOfType(g, entity_type) ==
    {id \in DOMAIN g.nodes : g.nodes[id].entity_type = entity_type}

\* C18: Per-sub-fetch failure policy.  If a transport failure occurs in a
\* sub-fetch after the organization overview (for a paginated stage, on any
\* of its page requests), that stage contributes an empty list to the
\* ScanResult and no entity to the graph, and the scan proceeds to the next
\* step; a failed issue or PR fetch contributes nothing for its repository.
C18_SubFetchFailurePolicy ==
    /\ ~NoFailure("repos") =>
          /\ result[1].repositories = <<>>
          /\ NodesOfType(graph, "REPOSITORY") = {}
          /\ pc \in {"teams", "members", "issues", "prs", "done"}
    /\ ~NoFailure("teams") =>
          /\ result[1].teams = <<>>
          /\ NodesOfType(graph, "TEAM") = {}
          /\ pc \in {"members", "issues", "prs", "done"}
    /\ ~NoFailure("members") =>
          /\ result[1].members = <<>>
          /\ NodesOfType(graph, "MEMBER") = {}
          /\ pc \in {"issues", "prs", "done"}
    /\ \A i \in DOMAIN calls :
          (calls[i].kind \in {"issues", "prs"} /\ ~calls[i].success) =>
              \A e \in Range(result[1].issues \o result[1].pull_requests) :
                  ~(e.id[1] = (IF calls[i].kind = "issues" THEN "issue"
                               ELSE "pr")
                    /\ e.id[2] = calls[i].arg[2])
    /\ (pc = "done" /\ \E i \in DOMAIN calls :
                          calls[i].kind # "org_overview" /\ ~calls[i].success)
          => (exc = "none" /\ returned # None)

\* C19: Pagination stops at the cap.  During the repository stage with
\* max_repos = m >= 1, no page request is issued once the number of
\* repository items already received is m or more.  (The cursor a request
\* carries is the number of items received before it.)
C19_PaginationStopsAtCap ==
    (args # None /\ Truthy(args[1].max_repos)) =>
        \A i \in DOMAIN calls :
            calls[i].kind = "repos" =>
                (calls[i].arg = None \/ calls[i].arg[1] < args[1].max_repos[1])

\* C20: max_repos is a hard cap for every integer given, 0 included: the
\* number of repository entities scan returns and the number of OWNS
\* relationships are both at most max_repos.
C20_MaxReposHardCap ==
    (returned # None /\ args[1].max_repos # None) =>
        /\ Len(returned[1].repositories) <= args[1].max_repos[1]
        /\ Len(OfType(returned[1].relationships, "OWNS"))
              <= args[1].max_repos[1]

\* position of a transport call's stage in the pipeline of scan()
StageRank(kind) ==
    CASE kind = "org_overview" -> 1
      [] kind = "repos" -> 2
      [] kind = "teams" -> 3
      [] kind = "members" -> 4
      [] OTHER -> 5

PaginatedKinds == {"repos", "teams", "members"}

FetchKinds == {"issues", "prs"}

\* the position in fetch order of the repository a per-repository call is for
RepoIndex(id) == CHOOSE k \in DOMAIN repos : repos[k].id = id

\* the place of a per-repository call in the loop: repository by repository,
\* issues before pull requests
FetchKey(c) == 2 * RepoIndex(c.arg) + (IF c.kind = "prs" THEN 1 ELSE 0)

C29_LastScanResult == returned # None => get_scan_result = returned

\* what the remote holds behind a paginated stage, and the kind of its items
StageTotal(kind) ==
    CASE kind = "repos" -> remote.repos
      [] kind = "teams" -> remote.teams
      [] OTHER -> remote.members

StageItem(kind) ==
    CASE kind = "repos" -> "repo"
      [] kind = "teams" -> "team"
      [] OTHER -> "member"

\* the max_pages a stage hands to paginate()
StageMaxPages(kind) ==
    IF kind = "repos" THEN repos_max_pages(args[1].max_repos) ELSE None

\* the page the remote answered to the i-th transport call
PageOf(i) ==
    remote_page(StageItem(calls[i].kind), StageTotal(calls[i].kind),
                calls[i].arg, PageSize)

\* the page requests of a stage among the first n transport calls
PageCalls(kind, n) == {i \in 1..n : calls[i].kind = kind}

\* the nodes of the successfully fetched pages of a stage among the first n
\* transport calls, in fetch order
RECURSIVE Fetched(_, _)
Fetched(kind, n) ==
    IF n = 0 THEN <<>>
    ELSE Fetched(kind, n - 1)
         \o (IF calls[n].kind = kind /\ calls[n].success
             THEN PageOf(n).nodes ELSE <<>>)

\* C26: in every paginate() run the first request carries no cursor and each
\* later one the endCursor of the page before it; no request follows a failed
\* page, a page without next page, or the max_pages-th request, so a run with
\* max_pages makes at most max_pages requests; the list paginate() builds and
\* returns is the concatenation of the nodes of the successfully fetched
\* pages in fetch order.
C26_PaginateProtocol ==
    /\ \A i \in DOMAIN calls :
          calls[i].kind \in PaginatedKinds =>
             /\ (i = 1 \/ calls[i - 1].kind # calls[i].kind)
                   => calls[i].arg = None
             /\ (i > 1 /\ calls[i - 1].kind = calls[i].kind) =>
                   /\ calls[i - 1].success
                   /\ PageOf(i - 1).hasNextPage
                   /\ calls[i].arg = PageOf(i - 1).endCursor
                   /\ StageMaxPages(calls[i].kind) # None =>
                         Cardinality(PageCalls(calls[i].kind, i - 1))
                            < StageMaxPages(calls[i].kind)[1]
    /\ \A kind \in PaginatedKinds :
          (args # None /\ StageMaxPages(kind) # None) =>
             Cardinality(PageCalls(kind, Len(calls)))
                <= StageMaxPages(kind)[1]
    /\ pag # None => pag[1].all_items = Fetched(pc, Len(calls))
    /\ (pc \in {"teams", "members", "issues", "prs", "done"} /\ exc = "none"
        /\ OrgOk) =>
          result[1].repositories
             = scan_repositories(Fetched("repos", Len(calls)),
                                 args[1].max_repos)
    /\ (pc \in {"members", "issues", "prs", "done"} /\ exc = "none"
        /\ OrgOk) =>
          result[1].teams = scan_teams(Fetched("teams", Len(calls)))
    /\ (pc \in {"issues", "prs", "done"} /\ exc = "none" /\ OrgOk) =>
          result[1].members = scan_members(Fetched("members", Len(calls)))

\* a scan returned whose repository pagination made max_pages requests, the
\* last of them answered with a page that had a next page
C26_Witness ==
    /\ pc = "done" /\ returned # None
    /\ StageMaxPages("repos") # None
    /\ \E i \in DOMAIN calls :
          /\ calls[i].kind = "repos" /\ calls[i].success
          /\ PageOf(i).hasNextPage
          /\ Cardinality(PageCalls("repos", i)) = StageMaxPages("repos")[1]
          /\ i < Len(calls) /\ calls[i + 1].kind = "teams"
    /\ returned[1].repositories # <<>>

\* the graph without its hyperedge list
NonHyperedgeState(g) ==
    <<g.nodes, g.edges, g.nodes_by_type, g.edges_by_source,
      g.edges_by_target, g.edges_by_type, g.nx_graph>>

\* C27: the i-th hyperedge added, counting from 0, has the id he_i, so the
\* hyperedge ids are pairwise distinct; and a step that adds a hyperedge
\* stores the entity ids it was given whether or not they are nodes, raises
\* nothing and leaves nodes, edges, the node and edge indices and the
\* library graph unchanged.
C27_HyperedgeIds ==
    /\ [](/\ \A i \in DOMAIN graph.hyperedges :
                graph.hyperedges[i].id = <<"he", i - 1>>
          /\ \A i, j \in DOMAIN graph.hyperedges :
                graph.hyperedges[i].id = graph.hyperedges[j].id => i = j)
    /\ [][graph'.hyperedges # graph.hyperedges =>
            /\ Len(graph'.hyperedges) = Len(graph.hyperedges) + 1
            /\ Prefix(graph'.hyperedges, Len(graph.hyperedges))
                  = graph.hyperedges
            /\ graph'.hyperedges[Len(graph'.hyperedges)].entity_ids
                  \in HyperedgeIdLists
            /\ NonHyperedgeState(graph') = NonHyperedgeState(graph)
            /\ exc' = "none"]_vars

\* two hyperedges, one over an id that is no node, in a graph that has nodes
\* and edges
C27_Witness ==
    /\ Len(graph.hyperedges) >= 2
    /\ \E i \in DOMAIN graph.hyperedges :
          \E k \in DOMAIN graph.hyperedges[i].entity_ids :
             graph.hyperedges[i].entity_ids[k] \notin DOMAIN graph.nodes
    /\ graph.nodes # EmptyDict
    /\ graph.edges # <<>>

\* sum of the values of a dict of numbers
RECURSIVE SumValues(_)
SumValues(d) ==
    IF DOMAIN d = {} THEN 0
    ELSE LET k == CHOOSE k \in DOMAIN d : TRUE
         IN  d[k] + SumValues([j \in DOMAIN d \ {k} |-> d[j]])

\* C23: after any sequence of add_entity calls, re-adding an id with the same
\* or another type included, get_entities_by_type(t) returns exactly the
\* nodes now stored with type t, each once, the dump's per-type count of t is
\* that number, and the per-type counts sum to node_count.
C23_NodesByTypeIndex ==
    /\ \A t \in EntityTypes :
          LET listed == get_entities_by_type(graph, t)
          IN  /\ {listed[i].id : i \in DOMAIN listed} = NodesOfType(graph, t)
              /\ \A i \in DOMAIN listed : listed[i].entity_type = t
              /\ Len(listed) = Cardinality(NodesOfType(graph, t))
              /\ Get(statistics(graph).nodes_by_type, EntityTypeValue[t], 0)
                    = Cardinality(NodesOfType(graph, t))
    /\ SumValues(statistics(graph).nodes_by_type)
          = statistics(graph).node_count

\* the same store read by the build without networkx
WithoutLibrary(g) == [g EXCEPT !.nx_graph = None]

\* C30: in every graph state reachable through add_entity and
\* add_relationship, dangling and duplicate edges and single-node graphs
\* included, the networkx branch and the fallback branch of find_path,
\* find_clusters and compute_centrality give the same result: the same
\* outcome and path length, the same partition into clusters, the same
\* centrality of every node.
C30_LibraryFallbackEquivalence ==
    graph.nx_graph # None =>
        LET lib == graph
            own == WithoutLibrary(graph)
        IN  /\ \A a \in Ids, b \in Ids, order \in IdOrders :
                  LET p == find_path(lib, a, b, order)
                      q == find_path(own, a, b, order)
                  IN  /\ p.exc = q.exc
                      /\ (p.value = None) <=> (q.value = None)
                      /\ p.value # None => Len(p.value[1]) = Len(q.value[1])
            /\ \A node_order \in IdOrders, order \in IdOrders :
                  Range(find_clusters(lib, node_order, order))
                     = Range(find_clusters(own, node_order, order))
            /\ LET c == compute_centrality(lib)
                   d == compute_centrality(own)
               IN  /\ DOMAIN c = DOMAIN d
                   /\ \A id \in DOMAIN c :
                         c[id].num * d[id].den = d[id].num * c[id].den

\* breadth-first search that visits the outgoing edges of each node in the
\* order they were inserted: one pass over the edges of the current node ...
RECURSIVE VisitInserted(_, _, _, _, _, _)
VisitInserted(g, out, k, queue, visited, path) ==
    IF k > Len(out) THEN [queue |-> queue, visited |-> visited]
    ELSE LET id == out[k].target_id
         IN  IF id \in visited \/ id \notin DOMAIN g.nodes
             THEN VisitInserted(g, out, k + 1, queue, visited, path)
             ELSE VisitInserted(g, out, k + 1,
                                Append(queue, <<id, Append(path, id)>>),
                                visited \cup {id}, path)

\* ... and the search itself
RECURSIVE InsertedBfs(_, _, _, _)
InsertedBfs(g, queue, visited, target_id) ==
    IF queue = <<>> THEN None
    ELSE IF Head(queue)[1] = target_id THEN Some(Head(queue)[2])
    ELSE LET r == VisitInserted(g, get_relationships_from(g, Head(queue)[1]),
                                1, Tail(queue), visited, Head(queue)[2])
         IN  InsertedBfs(g, r.queue, r.visited, target_id)

\* C22: find_path(a, b) on a graph built by a given sequence of add_entity
\* and add_relationship calls is the same in every run, and among several
\* shortest paths it is the one found by visiting each node's outgoing edges
\* in the order they were inserted.
C22_FindPathDeterminism ==
    \A a \in DOMAIN graph.nodes, b \in DOMAIN graph.nodes :
        \A o1 \in LoadOrders :
            /\ \A o2 \in LoadOrders :
                  find_path(graph, a, b, o1) = find_path(graph, a, b, o2)
            /\ find_path(graph, a, b, o1).value
                  = InsertedBfs(graph, <<<<a, <<a>>>>>>, {a}, b)

\* s concatenated k times
RECURSIVE Repeat(_, _)
Repeat(s, k) == IF k = 0 THEN <<>> ELSE Repeat(s, k - 1) \o s

\* every scan() call made so far has returned, all of its fetches answered
\* successfully
AllScansSuccessful ==
    /\ pc = "done" /\ exc = "none"
    /\ \A i \in DOMAIN calls :
          calls[i].success /\ (calls[i].kind = "org_overview" => calls[i].arg)

\* the number of repositories a successful scan returns
ReposReturned ==
    IF Truthy(args[1].max_repos)
    THEN Min(args[1].max_repos[1], remote.repos) ELSE remote.repos

\* C24: after k >= 1 successful scans with the same arguments run one after
\* another on one OrganizationMapper against an unchanged remote, the node-id
\* set of the graph is the set of ids of one scan's entities (the set after
\* the first scan), the edge list is the k scans' relationships one after
\* another, k * (#repositories + #members) edges, and the ScanResult the last
\* call returned holds the entities and relationships of one scan only.
C24_RepeatedScans ==
    AllScansSuccessful =>
        LET k == ops + 1
            r == returned[1]
        IN  /\ Cardinality({i \in DOMAIN calls :
                               calls[i].kind = "org_overview"}) = k
            /\ DOMAIN graph.nodes = Range(NodeIdSeq(ResultEntities(r)))
            /\ graph.edges = Repeat(r.relationships, k)
            /\ Len(graph.edges) = k * (Len(r.repositories) + Len(r.members))
            /\ r = get_scan_result[1]
            /\ NodeIdSeq(r.repositories) = RemoteIds("repo", ReposReturned)
            /\ NodeIdSeq(r.teams) = RemoteIds("team", remote.teams)
            /\ NodeIdSeq(r.members) = RemoteIds("member", remote.members)
            /\ Len(r.issues) =
                  IF args[1].include_issues
                  THEN Len(issue_repos(r.repositories)) * remote.issues ELSE 0
            /\ Len(r.pull_requests) =
                  IF args[1].include_prs
                  THEN Len(issue_repos(r.repositories)) * remote.prs ELSE 0
            /\ NoRepeat(NodeIdSeq(ResultEntities(r)))
            /\ r.relationships
                  = owns(r.organization[1], r.repositories)
                    \o member_of(r.organization[1], r.members)

\* two successful scans of an organization with repositories, members and
\* issues have returned
C24_Witness ==
    /\ AllScansSuccessful
    /\ ops = MaxScans - 1
    /\ Len(returned[1].repositories) >= 2
    /\ returned[1].members # <<>>
    /\ returned[1].issues # <<>>

\* C28: in every state reachable by running scans on one OrganizationMapper,
\* whether they succeed, lose stages to failed fetches, stop at the
\* organization gate or are interrupted at an await, every edge of its graph
\* has its source id and its target id among the nodes of that graph.
C28_NoDanglingEdge ==
    \A i \in DOMAIN graph.edges :
        /\ graph.edges[i].source_id \in DOMAIN graph.nodes
        /\ graph.edges[i].target_id \in DOMAIN graph.nodes

\* a scan that stored edges was followed by a scan that lost a fetch and was
\* then interrupted
C28_Witness ==
    /\ graph.edges # <<>>
    /\ ops >= 1
    /\ Cancelled
    /\ \E i \in DOMAIN calls : ~calls[i].success

\* the entity field each key of a node is read into
FieldOf ==
    [description |-> "description", isPrivate |-> "is_private",
     primaryLanguage |-> "primary_language",
     defaultBranchRef |-> "default_branch", diskUsage |-> "disk_usage",
     languages |-> "languages", number |-> "number", title |-> "title",
     state |-> "state", author |-> "author_login", labels |-> "labels",
     headRefName |-> "head_ref", additions |-> "additions",
     reviewDecision |-> "review_decision"]

\* the value each field has when its key is absent, or its object null
CodeDefaults ==
    [description |-> "", isPrivate |-> Some(FALSE), primaryLanguage |-> "",
     defaultBranchRef |-> "main", diskUsage |-> Some(0), languages |-> <<>>,
     number |-> Some(0), title |-> Some(""), state |-> "OPEN", author |-> "",
     labels |-> <<>>, headRefName |-> Some(""), additions |-> Some(0),
     reviewDecision |-> "NONE"]

\* the same with every text field defaulting to the empty string
EmptyDefaults == [CodeDefaults EXCEPT !.defaultBranchRef = ""]

\* the fields whose type is an enum
EnumKeys == {"state", "reviewDecision"}

NullableObjects == {"author", "primaryLanguage", "defaultBranchRef"}

\* a node in which keys are absent and only the author, primaryLanguage and
\* defaultBranchRef objects are null
AnomalousNode(p) ==
    \A k \in DOMAIN p.shape : p.shape[k] = "null" => k \in NullableObjects

\* the keys of a node that are absent or null
AffectedKeys(p) == {k \in DOMAIN p.shape : p.shape[k] # "value"}

=============================================================================
